---- MODULE Spec2Model ----
(***************************************************************************)
(* A model of the StockWish search core: the transposition cache           *)
(* (stockwishbot/cache.rs), the move ordering (stockwishbot/move_ordering  *)
(* .rs and the MoveOrder of stockwishbot/stockwish.rs), the alpha-beta     *)
(* searches (stockwish.rs, stockwishbot/stockwish.rs) and the root driver. *)
(*                                                                         *)
(* The rules engine (the `chess` crate) is external.  A position is an     *)
(* index into a small fixed game graph; its hash is the index.  A move is  *)
(* a record [id, dest, to]: its identity, its destination square and the   *)
(* position it leads to.  Scores are "positive is good for White", the     *)
(* convention of both stockwish.rs files.                                  *)
(***************************************************************************)
EXTENDS Integers, Sequences, FiniteSets, TLC

VARIABLES
    cache,      \* SWCache: hash -> CacheData, or NoEntry
    ins,        \* history: per hash, the depths passed to insert_in_cache_if_better
    top,        \* a TopTargets under test
    inserted,   \* history: the (score, move) pairs passed to try_insert
    mo,         \* a MoveOrder being iterated: the iterator, its board, what it yielded
    val,        \* the static value of every position, positive is good for White
    result,     \* what the last request to the engine returned
    log,        \* history: the calls of the search made by the last request
    requests,   \* number of requests the engine has answered
    app         \* the chess board application: MyApp and its AIController

vars == <<cache, ins, top, inserted, mo, val, result, log, requests, app>>
searchVars == <<val, result, log, requests, app>>

I32Max == 2147483647
I32Min == (-I32Max) - 1

\* ---------------------------------------------------------------- bounds
NumHashes == 2
MaxInsertDepth == 2
MaxCacheCalls == 3
MaxSize == 2
MaxScore == 2
MaxInserts == 4
NumMoveIds == 3
NumSquares == 4
MaxMoves == 2
TopTargetsSize == 5
DefaultDepth == 8
OldDepth == 3
IterativeDeepeningDepths == <<4, 6, 8>>
MaxVal == 2
MaxRequests == 2
MaxPlainDepth == 4
MaxNegDepth == 1
MaxDepthArg == 3
MaxScoreVal == 7
MaxCell == 2
MaxQVal == 1
MaxGameLen == 4
MaxWorkers == 2

Hashes == 0 .. (NumHashes - 1)
MoveIds == 1 .. NumMoveIds

Max(a, b) == IF a >= b THEN a ELSE b
Min(a, b) == IF a <= b THEN a ELSE b

\* ---------------------------------------------------------------- Score
Exact(v) == [tag |-> "Exact", val |-> v]
UpperBound(v) == [tag |-> "UpperBound", val |-> v]
LowerBound(v) == [tag |-> "LowerBound", val |-> v]

\* impl From<Score> for i32
ScoreToI32(score) == score.val

\* `-val` on an i32: the one value without a negation is i32::MIN; a build
\* with overflow checks (debug) panics on it, one without (release) wraps.
Builds == {"debug", "release"}
NegOverflows(v) == v = I32Min
\* i32::wrapping_neg: 2^32 - v modulo 2^32 as a two's complement number, which
\* is -v but for i32::MIN, which it leaves as it is
WrappingNeg(v) == IF NegOverflows(v) THEN I32Min ELSE -v
Panic == [tag |-> "panic"]

\* impl Neg for Score
Score_neg_keeping_tag(score, build) ==
    IF score.tag = "panic" \/ (NegOverflows(score.val) /\ build = "debug") THEN Panic
    ELSE [tag |-> score.tag, val |-> WrappingNeg(score.val)]
Score_neg(score, build) ==
    IF score.tag = "panic" \/ (NegOverflows(score.val) /\ build = "debug") THEN Panic
    ELSE CASE score.tag = "Exact" -> Exact(WrappingNeg(score.val))
           [] score.tag = "UpperBound" -> LowerBound(WrappingNeg(score.val))
           [] score.tag = "LowerBound" -> UpperBound(WrappingNeg(score.val))

\* ---------------------------------------------------------------- TopTargets
TopTargetsNew(max_size) == [moves |-> <<>>, max_size |-> max_size]

\* Vec::swap_remove(idx): the last element takes the place of element idx.
SwapRemove(s, idx) ==
    LET last == s[Len(s)]
        cut == SubSeq(s, 1, Len(s) - 1)
    IN  IF idx = Len(s) THEN cut ELSE [cut EXCEPT ![idx] = last]

\* iter().position(|x| x.0 < score): the first index whose score is lower, 0 if none.
PositionLower(s, score) ==
    LET hits == {i \in 1 .. Len(s) : s[i][1] < score}
    IN  IF hits = {} THEN 0 ELSE CHOOSE i \in hits : \A j \in hits : i <= j

try_insert_one_more(t, score, chess_move) ==
    IF Len(t.moves) <= t.max_size
    THEN [t EXCEPT !.moves = Append(t.moves, <<score, chess_move>>)]
    ELSE LET idx == PositionLower(t.moves, score)
         IN  IF idx # 0
             THEN [t EXCEPT !.moves = SwapRemove(Append(t.moves, <<score, chess_move>>), idx)]
             ELSE t

try_insert(t, score, chess_move) ==
    IF Len(t.moves) < t.max_size
    THEN [t EXCEPT !.moves = Append(t.moves, <<score, chess_move>>)]
    ELSE LET idx == PositionLower(t.moves, score)
         IN  IF idx # 0
             THEN [t EXCEPT !.moves = SwapRemove(Append(t.moves, <<score, chess_move>>), idx)]
             ELSE t


\* TopTargets::targets(): the destination squares of the retained moves, as a BitBoard
TopTargets_targets(t) == {t.moves[i][2].dest : i \in 1 .. Len(t.moves)}

ordered_moves_descending(t) ==
    LET n == Len(t.moves)
        Before(j, i) == t.moves[j][1] > t.moves[i][1] \/ (t.moves[j][1] = t.moves[i][1] /\ j < i)
        Rank(i) == Cardinality({j \in 1 .. n : Before(j, i)}) + 1
    IN  [k \in 1 .. n |-> t.moves[CHOOSE i \in 1 .. n : Rank(i) = k][2]]

\* sorted_by(|a, b| a.0.cmp(&b.0)): a stable sort, ascending in the score
ordered_moves(t) ==
    LET n == Len(t.moves)
        Before(j, i) == t.moves[j][1] < t.moves[i][1] \/ (t.moves[j][1] = t.moves[i][1] /\ j < i)
        Rank(i) == Cardinality({j \in 1 .. n : Before(j, i)}) + 1
    IN  [k \in 1 .. n |-> t.moves[CHOOSE i \in 1 .. n : Rank(i) = k][2]]

\* ---------------------------------------------------------------- the rules engine
\* Board: side to move, the squares holding the opponent's pieces
\* (color_combined(!side_to_move)), the squares holding the mover's own pieces
\* (never a destination), and the legal moves in MoveGen's order.
Mv(id, dest, to) == [id |-> id, dest |-> dest, to |-> to]
NoMove == [id |-> 0]

\* The game graph.  1 is Black to move; 5 is reached both from 2 and, two
\* plies deeper, from 10 (a transposition); 7 has two captures on one square;
\* 14 has a legal move but no capture; 4, 8, 9, 12, 13 and 15 have no legal move;
\* 16, outside the rest, has two captures on two squares.  17 .. 21, outside
\* the rest as well: at 17 Black mates at once with its second move (19) and
\* in two more moves with its first, a capture (18, 20, 21).  22 .. 26 are
\* 17 .. 21 with the colours exchanged.
Boards == <<
    [side |-> "Black", opp |-> {1}, own |-> {4}, moves |-> <<Mv(1, 1, 2), Mv(2, 2, 3)>>],
    [side |-> "White", opp |-> {1}, own |-> {4}, moves |-> <<Mv(1, 2, 5), Mv(2, 1, 4)>>],
    [side |-> "White", opp |-> {1}, own |-> {4}, moves |-> <<Mv(1, 1, 6)>>],
    [side |-> "Black", opp |-> {},  own |-> {4}, moves |-> <<>>],
    [side |-> "Black", opp |-> {1}, own |-> {4}, moves |-> <<Mv(1, 1, 7), Mv(2, 2, 8)>>],
    [side |-> "Black", opp |-> {1}, own |-> {4}, moves |-> <<Mv(1, 1, 9), Mv(2, 2, 10)>>],
    [side |-> "White", opp |-> {1}, own |-> {4}, moves |-> <<Mv(1, 1, 11), Mv(2, 1, 12)>>],
    [side |-> "White", opp |-> {},  own |-> {4}, moves |-> <<>>],
    [side |-> "White", opp |-> {},  own |-> {4}, moves |-> <<>>],
    [side |-> "White", opp |-> {1}, own |-> {4}, moves |-> <<Mv(1, 1, 5)>>],
    [side |-> "Black", opp |-> {1}, own |-> {4}, moves |-> <<Mv(1, 2, 14), Mv(2, 1, 13)>>],
    [side |-> "Black", opp |-> {},  own |-> {4}, moves |-> <<>>],
    [side |-> "White", opp |-> {},  own |-> {4}, moves |-> <<>>],
    [side |-> "White", opp |-> {},  own |-> {4}, moves |-> <<Mv(1, 3, 15)>>],
    [side |-> "Black", opp |-> {},  own |-> {4}, moves |-> <<>>],
    [side |-> "White", opp |-> {1, 2}, own |-> {4}, moves |-> <<Mv(1, 1, 4), Mv(2, 2, 12)>>],
    [side |-> "Black", opp |-> {1}, own |-> {4}, moves |-> <<Mv(1, 1, 18), Mv(2, 2, 19)>>],
    [side |-> "White", opp |-> {1}, own |-> {4}, moves |-> <<Mv(1, 1, 20)>>],
    [side |-> "White", opp |-> {},  own |-> {4}, moves |-> <<>>],
    [side |-> "Black", opp |-> {1}, own |-> {4}, moves |-> <<Mv(1, 1, 21)>>],
    [side |-> "White", opp |-> {},  own |-> {4}, moves |-> <<>>],
    [side |-> "White", opp |-> {1}, own |-> {4}, moves |-> <<Mv(1, 1, 23), Mv(2, 2, 24)>>],
    [side |-> "Black", opp |-> {1}, own |-> {4}, moves |-> <<Mv(1, 1, 25)>>],
    [side |-> "Black", opp |-> {},  own |-> {4}, moves |-> <<>>],
    [side |-> "White", opp |-> {1}, own |-> {4}, moves |-> <<Mv(1, 1, 26)>>],
    [side |-> "Black", opp |-> {},  own |-> {4}, moves |-> <<>>] >>

\* board.status(): the positions where the side to move is checkmated.  The
\* other positions without a legal move are where the game graph is cut off;
\* they keep the value of an ongoing position.
Checkmated == {19, 21, 24, 26}
BoardStatus(board) == IF board \in Checkmated THEN "Checkmate" ELSE "Ongoing"

\* The pieces of the game graph, by the values of evaluation.rs.  Every
\* opposing piece is a pawn, but for the queen on square 2 of position 16;
\* the first move of a position is made by a pawn and the second by a knight
\* (MoveGen generates pawn moves first), but in position 16, where one knight
\* makes both captures (MoveGen generates its destinations in square order).
QUEEN_VALUE == 900
KNIGHT_VALUE == 320
PAWN_VALUE == 100
VictimValue(board, chess_move) ==
    IF board = 16 /\ chess_move.dest = 2 THEN QUEEN_VALUE ELSE PAWN_VALUE
AttackerValue(board, chess_move) ==
    IF board = 16 \/ chess_move.id # 1 THEN KNIGHT_VALUE ELSE PAWN_VALUE
IsCapture(board, chess_move) == chess_move.dest \in Boards[board].opp

Positions == 1 .. Len(Boards)
AllSquares == 1 .. NumSquares
LegalMoves(board) == {Boards[board].moves[i] : i \in 1 .. Len(Boards[board].moves)}

\* chess::MoveGen: the legal moves not yet yielded, and the iterator mask
MoveGenNewLegal(board) == [moves |-> Boards[board].moves, mask |-> AllSquares]
SetIteratorMask(gen, mask) == [gen EXCEPT !.mask = mask]
MoveGenLen(gen) == Cardinality({i \in 1 .. Len(gen.moves) : gen.moves[i].dest \in gen.mask})
MoveGenNext(gen) ==
    LET hits == {i \in 1 .. Len(gen.moves) : gen.moves[i].dest \in gen.mask}
    IN  IF hits = {} THEN [item |-> NoMove, gen |-> gen]
        ELSE LET i == CHOOSE k \in hits : \A j \in hits : k <= j
             IN  [item |-> gen.moves[i],
                  gen |-> [gen EXCEPT !.moves =
                              SubSeq(gen.moves, 1, i - 1) \o SubSeq(gen.moves, i + 1, Len(gen.moves))]]

movegen_from_mask(board, mask) == SetIteratorMask(MoveGenNewLegal(board), mask)

\* ---------------------------------------------------------------- move_ordering.rs
MoveOrder_new_with_hint(board, top_targets) ==
    LET targets_bitboard == TopTargets_targets(top_targets)
        other_players_pieces == Boards[board].opp
    IN  [targets |-> ordered_moves(top_targets), hinted |-> TRUE,
         captures_movegen |-> movegen_from_mask(board, other_players_pieces \ targets_bitboard),
         remaining_movegen |->
             movegen_from_mask(board, (AllSquares \ other_players_pieces) \ targets_bitboard),
         board |-> board, stage |-> "Hints"]

MoveOrder_new_remaining_first(board) ==
    LET other_players_pieces == Boards[board].opp
    IN  [targets |-> <<>>, hinted |-> FALSE,
         captures_movegen |-> movegen_from_mask(board, AllSquares \ other_players_pieces),
         remaining_movegen |-> movegen_from_mask(board, other_players_pieces),
         board |-> board, stage |-> "Captures"]

MoveOrder_new(board) ==
    LET other_players_pieces == Boards[board].opp
    IN  [targets |-> <<>>, hinted |-> FALSE,
         captures_movegen |-> movegen_from_mask(board, other_players_pieces),
         remaining_movegen |-> movegen_from_mask(board, AllSquares \ other_players_pieces),
         board |-> board, stage |-> "Captures"]

MoveOrder_len(it) ==
    MoveGenLen(it.captures_movegen) + MoveGenLen(it.remaining_movegen)
        + (IF it.hinted THEN Len(it.targets) ELSE 0)

\* next() in the Remaining stage
MoveOrder_next_remaining(it) ==
    LET r == MoveGenNext(it.remaining_movegen)
    IN  [item |-> r.item, it |-> [it EXCEPT !.remaining_movegen = r.gen]]

\* next() in the Captures stage
MoveOrder_next_captures(it) ==
    LET r == MoveGenNext(it.captures_movegen)
    IN  IF r.item # NoMove
        THEN [item |-> r.item, it |-> [it EXCEPT !.captures_movegen = r.gen]]
        ELSE MoveOrder_next_remaining([it EXCEPT !.stage = "Remaining"])

MoveOrder_next(it) ==
    CASE it.stage = "Hints" ->
            IF Len(it.targets) > 0
            THEN [item |-> it.targets[Len(it.targets)],
                  it |-> [it EXCEPT !.targets = SubSeq(it.targets, 1, Len(it.targets) - 1)]]
            ELSE MoveOrder_next_captures([it EXCEPT !.stage = "Captures"])
      [] it.stage = "Captures" -> MoveOrder_next_captures(it)
      [] it.stage = "Remaining" -> MoveOrder_next_remaining(it)

\* ---------------------------------------------------------------- MoveOrder of stockwishbot/stockwish.rs
SW_new_from_preferred_targets(board, target_squares) ==
    [movegen |-> movegen_from_mask(board, target_squares), board |-> board, stage |-> "Hints"]

SW_new(board) ==
    [movegen |-> movegen_from_mask(board, Boards[board].opp), board |-> board, stage |-> "Captures"]

SW_len(it) == MoveGenLen(it.movegen)

SW_next(it) ==
    LET next == MoveGenNext(it.movegen)
        Retry(mask, stage) ==
            LET again == MoveGenNext(SetIteratorMask(it.movegen, mask))
            IN  [item |-> again.item, it |-> [it EXCEPT !.movegen = again.gen, !.stage = stage]]
    IN  CASE it.stage = "Hints" ->
                IF next.item = NoMove THEN Retry(Boards[it.board].own, "Captures")
                ELSE [item |-> next.item, it |-> [it EXCEPT !.movegen = next.gen]]
          [] it.stage = "Captures" ->
                IF next.item = NoMove THEN Retry(AllSquares, "Remaining")
                ELSE [item |-> next.item, it |-> [it EXCEPT !.movegen = next.gen]]
          [] it.stage = "Remaining" ->
                [item |-> next.item, it |-> [it EXCEPT !.movegen = next.gen]]

\* `for m in it`: everything the iterator yields up to its first None
RECURSIVE SW_collect(_)
SW_collect(it) ==
    LET r == SW_next(it)
    IN  IF r.item = NoMove THEN <<>> ELSE <<r.item>> \o SW_collect(r.it)

RECURSIVE TryInsertAll(_, _)
TryInsertAll(t, pairs) ==
    IF pairs = <<>> THEN t
    ELSE TryInsertAll(try_insert(t, pairs[1][1], pairs[1][2]), Tail(pairs))

\* ---------------------------------------------------------------- cache
NoEntry == [depth |-> -1, none |-> TRUE]
CacheData(depth, score, targets) == [depth |-> depth, score |-> score, targets |-> targets]
EmptyCache(hashes) == [h \in hashes |-> NoEntry]

\* hashlru Cache::insert, below capacity (10 000 000 entries: nothing is evicted)
CacheInsert(c, hash, data) == [c EXCEPT ![hash] = data]

insert_in_cache_always(c, hash, depth, score, targets) ==
    CacheInsert(c, hash, CacheData(depth, score, targets))

insert_in_cache_if_not_worse(c, hash, depth, score, targets) ==
    IF c[hash] # NoEntry /\ depth < c[hash].depth THEN c
    ELSE CacheInsert(c, hash, CacheData(depth, score, targets))

insert_in_cache_if_better(c, hash, depth, score, targets) ==
    IF c[hash] # NoEntry
    THEN IF depth > c[hash].depth
         THEN CacheInsert(c, hash, CacheData(depth, score, targets))
         ELSE c
    ELSE CacheInsert(c, hash, CacheData(depth, score, targets))

\* ---------------------------------------------------------------- stockwishbot/stockwish.rs
\* raw_board_score and quiescent_board_score as stockwish.rs consumes them: a
\* value of the position, positive is good for White (evaluation.rs:1-2).
\* A checkmate is i32::MIN + 1, whoever is mated (evaluation.rs:68).
raw_board_score(board) ==
    IF BoardStatus(board) = "Checkmate" THEN I32Min + 1 ELSE val[board]

\* quiescent_board_score: the score, and the depth-0 entry it leaves in the cache
quiescent_board_score(board, c) ==
    LET score == Exact(raw_board_score(board))
    IN  [value |-> ScoreToI32(score),
         cache |-> insert_in_cache_if_better(c, board, 0, score, TopTargetsNew(0))]

\* one call of the search, as the history records it
Call(via, board, remaining_depth, score, have, offered) ==
    [via |-> via, pos |-> board, want |-> remaining_depth, score |-> score,
     have |-> have, offered |-> offered]

\* a call that enters the move loop: also the window it was given, the
\* (move, child score) pairs of the children searched and the entry stored
NodeCall(board, remaining_depth, have, offered, _alpha, _beta) ==
    [via |-> "node", pos |-> board, want |-> remaining_depth, score |-> Exact(0),
     have |-> have, offered |-> offered,
     alpha |-> _alpha, beta |-> _beta, tried |-> <<>>, stored |-> CacheData(0, Exact(0), <<>>)]

\* the cache probe: is the entry deep enough to be returned
CacheHit_only_at_equal_depth(entry, remaining_depth) ==
    entry # NoEntry /\ entry.depth = remaining_depth
CacheHit(entry, remaining_depth) == entry # NoEntry /\ entry.depth >= remaining_depth

\* the cutoff tests of the maximizing and of the minimizing player
WhiteCutoffOnEquality(alpha, beta, best_value) == beta <= best_value
WhiteCutoff(alpha, beta, best_value) == beta < best_value
BlackCutoff(alpha, beta, best_value) == best_value < alpha

RECURSIVE negamax_alpha_beta_cache(_, _, _, _, _, _)
RECURSIVE negamax_loop(_, _, _, _, _)

\* the code after the loop: Exact(best_value) is stored and returned
negamax_exhausted(board, remaining_depth, st, node, score) ==
    [score |-> score,
     cache |-> CacheInsert(st.cache, board, CacheData(remaining_depth, score, st.top_targets)),
     log |-> st.log \cup {[node EXCEPT !.via = "exhausted", !.score = score,
                                       !.stored = CacheData(remaining_depth, score, st.top_targets)]}]

\* a cutoff inside the loop: the bound is stored and returned
negamax_cutoff(board, remaining_depth, node, child, score, top_targets) ==
    [score |-> score,
     cache |-> CacheInsert(child.cache, board, CacheData(remaining_depth, score, top_targets)),
     log |-> child.log \cup {[node EXCEPT !.via = "cutoff", !.score = score,
                                          !.stored = CacheData(remaining_depth, score, top_targets)]}]

\* the loop body once the child's score and the new best_value are known
negamax_window(board, remaining_depth, it, st, node, child, top_targets, best_value) ==
    IF Boards[board].side = "White"
    THEN IF WhiteCutoff(Max(st.alpha, best_value), st.beta, best_value)
         THEN negamax_cutoff(board, remaining_depth, node, child, LowerBound(best_value), top_targets)
         ELSE negamax_loop(board, remaining_depth, it,
                           [alpha |-> Max(st.alpha, best_value), beta |-> st.beta,
                            best_value |-> best_value, top_targets |-> top_targets,
                            cache |-> child.cache, log |-> child.log], node)
    ELSE IF BlackCutoff(st.alpha, Min(st.beta, best_value), best_value)
         THEN negamax_cutoff(board, remaining_depth, node, child, UpperBound(best_value), top_targets)
         ELSE negamax_loop(board, remaining_depth, it,
                           [alpha |-> st.alpha, beta |-> Min(st.beta, best_value),
                            best_value |-> best_value, top_targets |-> top_targets,
                            cache |-> child.cache, log |-> child.log], node)

\* the loop body once the child has been searched
negamax_child(board, remaining_depth, it, st, node, chess_move, child, child_score) ==
    negamax_window(board, remaining_depth, it, st,
                   [node EXCEPT !.tried = Append(@, <<chess_move, child_score>>)], child,
                   try_insert(st.top_targets, child_score, chess_move),
                   IF Boards[board].side = "White" THEN Max(st.best_value, child_score)
                   ELSE Min(st.best_value, child_score))

\* one turn of `for chess_move in valid_moves`, nx being what next() gave
negamax_visit(board, remaining_depth, st, node, nx, child) ==
    negamax_child(board, remaining_depth, nx.it, st, node, nx.item, child, ScoreToI32(child.score))

negamax_turn(board, remaining_depth, st, node, nx) ==
    IF nx.item = NoMove
    THEN negamax_exhausted(board, remaining_depth, st, node, Exact(st.best_value))
    ELSE negamax_visit(board, remaining_depth, st, node, nx,
                       negamax_alpha_beta_cache(nx.item.to, remaining_depth - 1,
                                                st.cache, st.alpha, st.beta, st.log))

\* the `for chess_move in valid_moves` loop and the code after it;
\* st = [alpha, beta, best_value, top_targets, cache, log]
negamax_loop(board, remaining_depth, it, st, node) ==
    negamax_turn(board, remaining_depth, st, node, SW_next(it))

\* the leaf: quiescent_board_score scores the position and caches it
negamax_leaf(board, remaining_depth, lg, have, q) ==
    [score |-> Exact(q.value), cache |-> q.cache,
     log |-> lg \cup {Call("leaf", board, remaining_depth, Exact(q.value), have, {})}]

\* the ids of the moves in a sequence
MoveIdsOf(moves) == {moves[i].id : i \in 1 .. Len(moves)}

\* an inner node with its move order
negamax_inner(board, remaining_depth, c, _alpha, _beta, lg, have, valid_moves) ==
    IF SW_len(valid_moves) = 0
    THEN [score |-> Exact(raw_board_score(board)), cache |-> c,
          log |-> lg \cup {Call("no_moves", board, remaining_depth,
                                Exact(raw_board_score(board)), have, {})}]
    ELSE negamax_loop(board, remaining_depth, valid_moves,
                      [alpha |-> _alpha, beta |-> _beta,
                       best_value |-> IF Boards[board].side = "White" THEN I32Min ELSE I32Max,
                       top_targets |-> TopTargetsNew(TopTargetsSize),
                       cache |-> c, log |-> lg],
                      NodeCall(board, remaining_depth, have, MoveIdsOf(SW_collect(valid_moves)),
                               _alpha, _beta))

negamax_probed_without_leaf(board, remaining_depth, c, _alpha, _beta, lg, cached_evaluation) ==
    IF CacheHit(cached_evaluation, remaining_depth)
    THEN [score |-> cached_evaluation.score, cache |-> c,
          log |-> lg \cup {Call("cache", board, remaining_depth, cached_evaluation.score,
                                cached_evaluation.depth, {})}]
    ELSE negamax_inner(board, remaining_depth, c, _alpha, _beta, lg, cached_evaluation.depth,
                       IF cached_evaluation # NoEntry
                       THEN SW_new_from_preferred_targets(board,
                                TopTargets_targets(cached_evaluation.targets))
                       ELSE SW_new(board))

negamax_probed(board, remaining_depth, c, _alpha, _beta, lg, cached_evaluation) ==
    IF CacheHit(cached_evaluation, remaining_depth)
    THEN [score |-> cached_evaluation.score, cache |-> c,
          log |-> lg \cup {Call("cache", board, remaining_depth, cached_evaluation.score,
                                cached_evaluation.depth, {})}]
    ELSE IF remaining_depth = 0
    THEN negamax_leaf(board, remaining_depth, lg, cached_evaluation.depth,
                      quiescent_board_score(board, c))
    ELSE negamax_inner(board, remaining_depth, c, _alpha, _beta, lg, cached_evaluation.depth,
                       IF cached_evaluation # NoEntry
                       THEN SW_new_from_preferred_targets(board,
                                TopTargets_targets(cached_evaluation.targets))
                       ELSE SW_new(board))

negamax_alpha_beta_cache(board, remaining_depth, c, _alpha, _beta, lg) ==
    negamax_probed(board, remaining_depth, c, _alpha, _beta, lg, c[board])

\* the scores of the root's children, searched one after the other on one cache
RECURSIVE RootScores(_, _, _, _)
PrependKey(key, rest) == [keys |-> <<key>> \o rest.keys, cache |-> rest.cache, log |-> rest.log]
RootScoresAfter(moves, depth, r) ==
    PrependKey(ScoreToI32(r.score), RootScores(Tail(moves), depth, r.cache, r.log))
RootScoresAtDepthMinusOne(moves, depth, c, lg) ==
    IF moves = <<>> THEN [keys |-> <<>>, cache |-> c, log |-> lg]
    ELSE RootScoresAfter(moves, depth,
                         negamax_alpha_beta_cache(moves[1].to, depth - 1, c, I32Min, I32Max, lg))
RootScores(moves, depth, c, lg) ==
    IF moves = <<>> THEN [keys |-> <<>>, cache |-> c, log |-> lg]
    ELSE RootScoresAfter(moves, depth,
                         negamax_alpha_beta_cache(moves[1].to, depth, c, I32Min, I32Max, lg))

\* Iterator::max_by_key returns the last maximum, min_by_key the first minimum
MaxByKey(moves, keys) ==
    moves[CHOOSE i \in 1 .. Len(moves) :
              /\ \A j \in 1 .. Len(moves) : keys[j] <= keys[i]
              /\ \A j \in 1 .. Len(moves) : keys[j] = keys[i] => j <= i]
MinByKey(moves, keys) ==
    moves[CHOOSE i \in 1 .. Len(moves) :
              /\ \A j \in 1 .. Len(moves) : keys[j] >= keys[i]
              /\ \A j \in 1 .. Len(moves) : keys[j] = keys[i] => i <= j]

\* println!(.. best_move.unwrap() ..); best_move: Some(move), or the panic of
\* the unwrap on None
BestMoveOrPanic(best_move, scored) ==
    IF best_move = NoMove
    THEN [kind |-> "panic", move |-> NoMove, cache |-> scored.cache, log |-> scored.log]
    ELSE [kind |-> "Some", move |-> best_move, cache |-> scored.cache, log |-> scored.log]

BestOfScored(board, moves, scored) ==
    BestMoveOrPanic(IF moves = <<>> THEN NoMove
                    ELSE IF Boards[board].side = "Black" THEN MinByKey(moves, scored.keys)
                    ELSE MaxByKey(moves, scored.keys),
                    scored)

BestOfMoves(board, depth, c, moves) == BestOfScored(board, moves, RootScores(moves, depth, c, {}))

best_next_move_at_depth(board, depth, c) == BestOfMoves(board, depth, c, SW_collect(SW_new(board)))

RECURSIVE IterativeDeepening(_, _, _, _)
IterativeDeepeningPassOnEmptyCache(board, depths, r) ==
    IF r.kind = "panic" THEN r
    ELSE IterativeDeepening(board, Tail(depths), EmptyCache(Positions), r)
IterativeDeepeningPass(board, depths, r) ==
    IF r.kind = "panic" THEN r ELSE IterativeDeepening(board, Tail(depths), r.cache, r)
IterativeDeepening(board, depths, c, best) ==
    IF depths = <<>> THEN [best EXCEPT !.cache = c]
    ELSE IterativeDeepeningPass(board, depths, best_next_move_at_depth(board, depths[1], c))

best_next_move_iterative_deepening(board, c) ==
    IterativeDeepening(board, IterativeDeepeningDepths, c,
                       [kind |-> "None", move |-> NoMove, cache |-> c, log |-> {}])

best_next_move(board, c) == best_next_move_at_depth(board, DefaultDepth, c)

\* ---------------------------------------------------------------- stockwish.rs (the first engine)
evaluate_board(board) == val[board]

RECURSIVE negamax(_, _)
negamax(board, remaining_depth) ==
    IF remaining_depth = 0 THEN evaluate_board(board)
    ELSE LET child_scores == {negamax(m.to, remaining_depth - 1) : m \in LegalMoves(board)}
         IN  IF child_scores = {} THEN evaluate_board(board)
             ELSE IF Boards[board].side = "Black"
                  THEN CHOOSE x \in child_scores : \A y \in child_scores : x <= y
                  ELSE CHOOSE x \in child_scores : \A y \in child_scores : x >= y

RECURSIVE negamax_alpha_beta(_, _, _, _)
RECURSIVE negamax_alpha_beta_loop(_, _, _, _, _, _)

\* the `for child_board in child_boards` loop, left by `break` or at the end
negamax_alpha_beta_loop(board, remaining_depth, moves, alpha, beta, best) ==
    IF moves = <<>> THEN best
    ELSE LET child_score == negamax_alpha_beta(moves[1].to, remaining_depth - 1, alpha, beta)
             white == Boards[board].side = "White"
             best_value == IF white THEN Max(best, child_score) ELSE Min(best, child_score)
         IN  IF white
             THEN IF beta < best_value THEN best_value
                  ELSE negamax_alpha_beta_loop(board, remaining_depth, Tail(moves),
                                               Max(alpha, best_value), beta, best_value)
             ELSE IF best_value < alpha THEN best_value
                  ELSE negamax_alpha_beta_loop(board, remaining_depth, Tail(moves),
                                               alpha, Min(beta, best_value), best_value)

negamax_alpha_beta(board, remaining_depth, _alpha, _beta) ==
    IF remaining_depth = 0 THEN evaluate_board(board)
    ELSE IF Boards[board].moves = <<>> THEN evaluate_board(board)
    ELSE negamax_alpha_beta_loop(board, remaining_depth, Boards[board].moves, _alpha, _beta,
                                 IF Boards[board].side = "White" THEN I32Min ELSE I32Max)

\* ---------------------------------------------------------------- stockwishbot/stockwish.rs, search without cache
RECURSIVE bot_negamax_alpha_beta(_, _, _, _)
RECURSIVE bot_negamax_alpha_beta_loop(_, _, _, _, _, _)

bot_negamax_alpha_beta_loop(board, remaining_depth, it, alpha0, beta0, best) ==
    LET nx == SW_next(it)
    IN  IF nx.item = NoMove THEN Exact(best)
        ELSE LET child_score == ScoreToI32(bot_negamax_alpha_beta(nx.item.to, remaining_depth - 1,
                                                                  alpha0, beta0))
                 white == Boards[board].side = "White"
                 best_value == IF white THEN Max(best, child_score) ELSE Min(best, child_score)
                 alpha == IF white THEN Max(alpha0, best_value) ELSE alpha0
                 beta == IF white THEN beta0 ELSE Min(beta0, best_value)
             IN  IF white /\ beta < best_value THEN LowerBound(best_value)
                 ELSE IF ~white /\ best_value < alpha THEN UpperBound(best_value)
                 ELSE bot_negamax_alpha_beta_loop(board, remaining_depth, nx.it, alpha, beta, best_value)

bot_negamax_alpha_beta(board, remaining_depth, _alpha, _beta) ==
    IF remaining_depth = 0 THEN Exact(raw_board_score(board))
    ELSE IF SW_len(SW_new(board)) = 0 THEN Exact(raw_board_score(board))
    ELSE bot_negamax_alpha_beta_loop(board, remaining_depth, SW_new(board), _alpha, _beta,
                                     IF Boards[board].side = "White" THEN I32Min ELSE I32Max)

\* best_next_move of stockwish.rs: MoveGen::new_legal order, DEPTH = 3, and
\* best_move returned as it is (None when there is no legal move)
RECURSIVE OldRootScores(_)
OldRootScores(moves) ==
    IF moves = <<>> THEN <<>>
    ELSE <<negamax_alpha_beta(moves[1].to, OldDepth, I32Min, I32Max)>> \o OldRootScores(Tail(moves))

old_best_next_move(board) ==
    LET moves == Boards[board].moves
        keys == OldRootScores(moves)
    IN  IF moves = <<>> THEN [kind |-> "None", move |-> NoMove]
        ELSE IF Boards[board].side = "Black"
             THEN [kind |-> "Some", move |-> MinByKey(moves, keys)]
             ELSE [kind |-> "Some", move |-> MaxByKey(moves, keys)]

NoMoveOrder == [impl |-> "none"]
NoResult == [kind |-> "none"]
NoApp == [kind |-> "none"]
SearchIdle ==
    /\ app = NoApp
    /\ val = [b \in Positions |-> 0]
    /\ result = NoResult
    /\ log = {}
    /\ requests = 0

\* ================================================================ cache component
InitCache ==
    /\ cache = EmptyCache(Hashes)
    /\ ins = [h \in Hashes |-> <<>>]
    /\ top = TopTargetsNew(0)
    /\ inserted = <<>>
    /\ mo = NoMoveOrder
    /\ SearchIdle

InsertIfBetter ==
    /\ \E h \in Hashes, d \in 0 .. MaxInsertDepth, s \in {Exact(0), LowerBound(1)} :
          /\ Len(ins[h]) < MaxCacheCalls
          /\ cache' = insert_in_cache_if_better(cache, h, d, s, TopTargetsNew(0))
          /\ ins' = [ins EXCEPT ![h] = Append(@, d)]
          /\ result' = [kind |-> "insert", hash |-> h, depth |-> d, score |-> s,
                        before |-> cache[h]]
    /\ UNCHANGED <<top, inserted, mo, val, log, requests, app>>

NextCache == InsertIfBetter
SpecCache == InitCache /\ [][NextCache]_vars

SeqMax(s) == CHOOSE m \in {s[i] : i \in 1 .. Len(s)} : \A i \in 1 .. Len(s) : s[i] <= m

\* C1: over any sequence of insert_in_cache_if_better calls on one hash the
\* stored depth is the largest depth passed so far: it never decreases, and
\* after depths d1 < d2 in either order it is d2.
C1_CacheMonotonicity ==
    \A h \in DOMAIN ins :
        IF ins[h] = <<>> THEN cache[h] = NoEntry
        ELSE cache[h] # NoEntry /\ cache[h].depth = SeqMax(ins[h])

\* two calls with d1 < d2 were made in the order (d2, d1): the second is refused
C1_Witness ==
    \E h \in Hashes : Len(ins[h]) >= 2 /\ ins[h][1] > ins[h][2] /\ cache[h].depth = ins[h][1]

\* C11: a call whose depth equals the depth of the entry already stored for
\* the hash overwrites the entry: afterwards the entry holds the call's score.
C11_TieOverwrites ==
    (result.kind = "insert" /\ result.before # NoEntry /\ result.depth = result.before.depth)
        => cache[result.hash] = CacheData(result.depth, result.score, TopTargetsNew(0))

\* C11 as amended: a call on a hash that holds an entry overwrites the entry
\* when its depth is greater than the stored depth, and leaves the entry as
\* it is when the depth is equal or smaller (on a tie the first write stays).
C11_TieKeepsEntry ==
    (result.kind = "insert" /\ result.before # NoEntry)
        => IF result.depth > result.before.depth
           THEN cache[result.hash] = CacheData(result.depth, result.score, TopTargetsNew(0))
           ELSE cache[result.hash] = result.before

\* a call with the depth of the stored entry and another score was made
C11_Witness ==
    /\ result.kind = "insert"
    /\ result.before # NoEntry
    /\ result.depth = result.before.depth
    /\ result.score # result.before.score
    /\ cache[result.hash].score = result.before.score

\* ================================================================ TopTargets component
InitTop ==
    /\ cache = EmptyCache(Hashes)
    /\ ins = [h \in Hashes |-> <<>>]
    /\ \E n \in 0 .. MaxSize : top = TopTargetsNew(n)
    /\ inserted = <<>>
    /\ mo = NoMoveOrder
    /\ SearchIdle

TryInsert ==
    /\ Len(inserted) < MaxInserts
    /\ \E s \in 0 .. MaxScore, m \in MoveIds :
          /\ top' = try_insert(top, s, m)
          /\ inserted' = Append(inserted, <<s, m>>)
    /\ UNCHANGED <<cache, ins, mo, searchVars>>

NextTop == TryInsert
SpecTop == InitTop /\ [][NextTop]_vars

CountScore(s, v) == Cardinality({i \in 1 .. Len(s) : s[i][1] = v})

\* C2: the retained scores are exactly the max_size highest scores inserted
\* so far (all of them when fewer were inserted).
C2_TopTargetsRetention ==
    /\ Len(top.moves) = Min(top.max_size, Len(inserted))
    /\ \A v \in 0 .. MaxScore : CountScore(top.moves, v) <= CountScore(inserted, v)
    /\ \A v \in 0 .. MaxScore, w \in 0 .. MaxScore :
          (v < w /\ CountScore(top.moves, w) < CountScore(inserted, w))
             => CountScore(top.moves, v) = 0

\* the distinct moves passed to try_insert so far
DistinctInserted == {inserted[i][2] : i \in 1 .. Len(inserted)}

\* C12: the number of retained entries is min(max_size, number of distinct
\* moves inserted), also for max_size = 0 and for a move inserted twice.
C12_SizeIsDistinctMoves ==
    Len(top.moves) = Min(top.max_size, Cardinality(DistinctInserted))

\* C12 as amended: the number of retained entries is min(max_size, number of
\* try_insert calls), a move inserted twice counting twice; it never exceeds
\* max_size, also for max_size = 0.
C12_SizeIsCalls ==
    /\ Len(top.moves) = Min(top.max_size, Len(inserted))
    /\ Len(top.moves) <= top.max_size

\* one move was inserted twice into a TopTargets with room for both
C12_Witness ==
    /\ Len(inserted) >= 2
    /\ inserted[1][2] = inserted[2][2]
    /\ top.max_size >= 2
    /\ Len(top.moves) = 2
    /\ top.moves[1][2] = top.moves[2][2]

\* ================================================================ move-order component
\* The hints a cache entry of `board` can hold: the TopTargets of a node that
\* tried the first k moves of its move order (all of them, or fewer after a
\* cutoff), and the empty TopTargets of a leaf entry (k = 0).
HintsOf(board) ==
    LET tried == SW_collect(SW_new(board))
    IN  {TryInsertAll(TopTargetsNew(TopTargetsSize), [i \in 1 .. k |-> <<sc[i], tried[i]>>]) :
            <<k, sc>> \in {<<k, sc>> \in (0 .. Len(tried)) \X [1 .. MaxMoves -> 0 .. MaxScore] :
                              \A i \in 1 .. MaxMoves : i > k => sc[i] = 0}}

InitOrder ==
    /\ cache = EmptyCache(Hashes)
    /\ ins = [h \in Hashes |-> <<>>]
    /\ top = TopTargetsNew(0)
    /\ inserted = <<>>
    /\ SearchIdle
    /\ \E board \in Positions :
          \/ mo = [impl |-> "move_ordering", board |-> board, it |-> MoveOrder_new(board),
                   hints |-> TopTargetsNew(0), yielded |-> <<>>, done |-> FALSE]
          \/ mo = [impl |-> "stockwish", board |-> board, it |-> SW_new(board),
                   hints |-> TopTargetsNew(0), yielded |-> <<>>, done |-> FALSE]
          \/ \E h \in HintsOf(board) :
                \/ mo = [impl |-> "move_ordering", board |-> board,
                         it |-> MoveOrder_new_with_hint(board, h),
                         hints |-> h, yielded |-> <<>>, done |-> FALSE]
                \/ mo = [impl |-> "stockwish", board |-> board,
                         it |-> SW_new_from_preferred_targets(board, TopTargets_targets(h)),
                         hints |-> h, yielded |-> <<>>, done |-> FALSE]

\* one call of Iterator::next by a `for` loop, which stops at the first None
MoveOrderNext ==
    /\ mo.impl # "none"
    /\ ~mo.done
    /\ LET r == IF mo.impl = "move_ordering" THEN MoveOrder_next(mo.it) ELSE SW_next(mo.it)
       IN  mo' = IF r.item = NoMove
                 THEN [mo EXCEPT !.it = r.it, !.done = TRUE]
                 ELSE [mo EXCEPT !.it = r.it, !.yielded = Append(@, r.item)]
    /\ UNCHANGED <<cache, ins, top, inserted, searchVars>>

NextOrder == MoveOrderNext
SpecOrder == InitOrder /\ [][NextOrder]_vars

\* C3: the MoveOrder iterator yields every legal move exactly once, with or
\* without hints, and nothing for a position without legal moves.
C3_MoveOrderComplete ==
    mo.impl # "none" =>
        /\ \A i \in 1 .. Len(mo.yielded) : mo.yielded[i] \in LegalMoves(mo.board)
        /\ \A i, j \in 1 .. Len(mo.yielded) : i # j => mo.yielded[i] # mo.yielded[j]
        /\ mo.done => \A m \in LegalMoves(mo.board) : \E i \in 1 .. Len(mo.yielded) : mo.yielded[i] = m

\* the moves of the hints given to the iterator, and the score stored with one
HintedMoves == {mo.hints.moves[i][2] : i \in 1 .. Len(mo.hints.moves)}
HintScore(m) == mo.hints.moves[CHOOSE i \in 1 .. Len(mo.hints.moves) : mo.hints.moves[i][2] = m][1]

\* C15: given hints, the MoveOrder of move_ordering.rs yields every hinted
\* move before any other move, the hinted moves in non-increasing order of
\* their stored score.
C15_HintsFirstBestFirst ==
    (mo.impl = "move_ordering" /\ mo.it.hinted) =>
        /\ \A i, j \in 1 .. Len(mo.yielded) :
              /\ (mo.yielded[i] \in HintedMoves /\ mo.yielded[j] \notin HintedMoves) => i < j
              /\ (mo.yielded[i] \in HintedMoves /\ mo.yielded[j] \in HintedMoves /\ i < j)
                    => HintScore(mo.yielded[i]) >= HintScore(mo.yielded[j])
        /\ \A i \in 1 .. Len(mo.yielded) :
              (i <= Len(mo.hints.moves)) => mo.yielded[i] \in HintedMoves
        /\ mo.done => \A m \in HintedMoves : \E i \in 1 .. Len(mo.yielded) : mo.yielded[i] = m

\* two hints were stored worse-first, and the better one was yielded first
C15_Witness ==
    /\ mo.impl = "move_ordering" /\ mo.it.hinted
    /\ Len(mo.hints.moves) = 2
    /\ mo.hints.moves[1][1] < mo.hints.moves[2][1]
    /\ Len(mo.yielded) = 2
    /\ mo.yielded[1] = mo.hints.moves[2][2]
    /\ mo.yielded[2] = mo.hints.moves[1][2]

\* the moves yielded that were not among the hints, in the order yielded
NotHinted(i) == mo.yielded[i] \notin HintedMoves
MvvLva(chess_move) == VictimValue(mo.board, chess_move) - AttackerValue(mo.board, chess_move)
\* the place of a move in MoveGen's generation order
GenIndex(chess_move) ==
    CHOOSE k \in 1 .. Len(Boards[mo.board].moves) : Boards[mo.board].moves[k] = chess_move

Evaluated == {4, 8, 9, 13, 14}
Roots == {1, 3, 6, 7, 13, 17}

InitSearch ==
    /\ cache = EmptyCache(Positions)
    /\ ins = [h \in Hashes |-> <<>>]
    /\ top = TopTargetsNew(0)
    /\ inserted = <<>>
    /\ mo = NoMoveOrder
    /\ \E f \in [Evaluated -> 0 .. MaxVal] :
          val = [b \in Positions |-> IF b \in Evaluated THEN f[b] ELSE 0]
    /\ result = NoResult
    /\ log = {}
    /\ requests = 0
    /\ app = NoApp

\* a request answered: r is what the engine returned and left behind; the
\* result also keeps the depths the request was to run and the cache it found
Answer(board, r, schedule) ==
    /\ requests < MaxRequests
    /\ requests' = requests + 1
    /\ cache' = r.cache
    /\ log' = r.log
    /\ result' = [kind |-> r.kind, root |-> board, move |-> r.move,
                  schedule |-> schedule, before |-> cache]
    /\ UNCHANGED <<ins, top, inserted, mo, val, app>>

BestNextMove == \E board \in Roots : Answer(board, best_next_move(board, cache), <<DefaultDepth>>)

BestNextMoveIterativeDeepening ==
    \E board \in Roots :
        Answer(board, best_next_move_iterative_deepening(board, cache), IterativeDeepeningDepths)

NextSearch == BestNextMove \/ BestNextMoveIterativeDeepening
SpecSearch == InitSearch /\ [][NextSearch]_vars

\* one root pass run on what the pass before it left
PassAfter(board, depth, earlier) == best_next_move_at_depth(board, depth, earlier.cache)
\* the passes of the schedule, shallowest first, each on the cache of the one before
ThirdPass(board, c) ==
    PassAfter(board, IterativeDeepeningDepths[3],
              PassAfter(board, IterativeDeepeningDepths[2],
                        PassAfter(board, IterativeDeepeningDepths[1], [cache |-> c])))
SameAsPass(last) == result.move = last.move /\ cache = last.cache /\ log = last.log

\* C17: iterative deepening runs the passes in increasing depth order on
\* one shared cache and returns the move of the last, deepest pass; the
\* earlier passes count only through the cache they leave.
C17_LastPassOnSharedCache ==
    (result.kind = "Some" /\ result.schedule = IterativeDeepeningDepths) =>
        /\ \A i \in 1 .. (Len(result.schedule) - 1) : result.schedule[i] < result.schedule[i + 1]
        /\ SameAsPass(ThirdPass(result.root, result.before))
        /\ \A e \in log : e.want <= result.schedule[Len(result.schedule)]

\* the last pass found, for a child of the root, the entry that the pass
\* before it had stored
C17_Witness ==
    /\ result.kind = "Some" /\ result.schedule = IterativeDeepeningDepths
    /\ result.before = EmptyCache(Positions)
    /\ \E e \in log : /\ e.want = IterativeDeepeningDepths[3]
                       /\ e.have = IterativeDeepeningDepths[2]

\* ================================================================ one search call, any depth
\* negamax_alpha_beta_cache called once on an empty cache with the full
\* window and a remaining depth that may be negative
SearchedAt(board, depth, r) ==
    /\ requests = 0
    /\ requests' = 1
    /\ cache' = r.cache
    /\ log' = r.log
    /\ result' = [kind |-> "searched_at", root |-> board, depth |-> depth, score |-> r.score]
    /\ UNCHANGED <<ins, top, inserted, mo, val, app>>

SearchAtDepth ==
    \E board \in Roots, depth \in (-MaxNegDepth) .. MaxDepthArg :
        SearchedAt(board, depth, negamax_alpha_beta_cache(board, depth, cache, I32Min, I32Max, {}))

NextDepth == SearchAtDepth
SpecDepth == InitSearch /\ [][NextDepth]_vars

\* the calls that went through the move loop, that is, expanded children
ExpandedChildren(e) == e.via \in {"cutoff", "exhausted"}

BestNextMoveAtDepth ==
    \E board \in Roots, depth \in 1 .. MaxDepthArg :
        Answer(board, best_next_move_at_depth(board, depth, cache), <<depth>>)

NextRoot == BestNextMoveAtDepth
SpecRoot == InitSearch /\ [][NextRoot]_vars

\* the positions exactly k plies below a position
RECURSIVE PliesBelow(_, _)
PliesBelow(board, k) ==
    IF k = 0 THEN {board}
    ELSE UNION {PliesBelow(chess_move.to, k - 1) : chess_move \in LegalMoves(board)}

\* C18: in a root pass for depth d every child of the root is searched with
\* remaining depth d - 1, and every call of the pass is made k plies below
\* the root with remaining depth d - k: the pass looks d plies ahead.
C18_ChildrenAtDepthMinusOne ==
    (result.kind = "Some" /\ Len(result.schedule) = 1) =>
        /\ \A chess_move \in LegalMoves(result.root) :
               \E e \in log : e.pos = chess_move.to /\ e.want = result.schedule[1] - 1
        /\ \A e \in log :
               \E k \in 1 .. result.schedule[1] :
                   e.pos \in PliesBelow(result.root, k) /\ e.want = result.schedule[1] - k

\* C18 as amended: in a root pass for depth d every child of the root is
\* searched with remaining depth d, and every call of the pass is made k
\* plies below the root with remaining depth d + 1 - k: the pass looks
\* d + 1 plies ahead.
C18_ChildrenAtDepth ==
    (result.kind = "Some" /\ Len(result.schedule) = 1) =>
        /\ \A chess_move \in LegalMoves(result.root) :
               \E e \in log : e.pos = chess_move.to /\ e.want = result.schedule[1]
        /\ \A e \in log :
               \E k \in 1 .. (result.schedule[1] + 1) :
                   e.pos \in PliesBelow(result.root, k) /\ e.want = result.schedule[1] + 1 - k

\* a pass on an empty cache evaluated a leaf d + 1 plies below the root
C18_Witness ==
    /\ result.kind = "Some" /\ Len(result.schedule) = 1
    /\ result.before = EmptyCache(Positions)
    /\ \E e \in log : /\ e.via = "leaf" /\ e.want = 0
                       /\ e.pos \in PliesBelow(result.root, result.schedule[1] + 1)
                       /\ e.pos \notin PliesBelow(result.root, result.schedule[1])

\* ================================================================ the lichess bot
\* make_bot_move_if_own_turn: on the bot's own turn a StockWish::default() is
\* made, asked for a move by iterative deepening and dropped.  `cache` is the
\* cache of the engine that answered last, result.before the cache the
\* engine of this request started from.
BotAnswer(board, r, before) ==
    /\ requests < MaxRequests
    /\ requests' = requests + 1
    /\ cache' = r.cache
    /\ log' = r.log
    /\ result' = [kind |-> r.kind, root |-> board, move |-> r.move,
                  schedule |-> IterativeDeepeningDepths, before |-> before]
    /\ UNCHANGED <<ins, top, inserted, mo, val, app>>

make_bot_move_if_own_turn ==
    \E myself \in {"White", "Black"}, board \in Roots :
        /\ myself = Boards[board].side
        /\ BotAnswer(board,
                     best_next_move_iterative_deepening(board, EmptyCache(Positions)),
                     EmptyCache(Positions))

NextBot == make_bot_move_if_own_turn
SpecBot == InitSearch /\ [][NextBot]_vars

\* C19: the entries written while answering one move request are still
\* present when the next move request of the game is answered; a request
\* does not start from an empty cache.
C19_CachePersistsAcrossRequests ==
    [][requests' = requests + 1 =>
          \A h \in Positions : cache[h] # NoEntry => result'.before[h] = cache[h]]_vars

\* ================================================================ mate in one
\* the moves of a position that checkmate at once
MatingMoves(board) == {chess_move \in LegalMoves(board) : chess_move.to \in Checkmated}

\* C20: when the root has a move that checkmates at once, the engine,
\* searching at a depth of 2 or more, returns such a move and no other.
C20_MateInOnePreferred ==
    (/\ result.kind = "Some"
     /\ \A i \in 1 .. Len(result.schedule) : result.schedule[i] >= 2
     /\ MatingMoves(result.root) # {}) =>
        result.move \in MatingMoves(result.root)

\* ================================================================ the searches without cache
PlainValues == {I32Min, I32Max} \cup (0 .. MaxVal)
PlainEvaluated == {4, 8, 9, 13, 15}

InitPlain ==
    /\ cache = EmptyCache(Hashes)
    /\ ins = [h \in Hashes |-> <<>>]
    /\ top = TopTargetsNew(0)
    /\ inserted = <<>>
    /\ mo = NoMoveOrder
    /\ \E f \in [PlainEvaluated -> PlainValues] :
          val = [b \in Positions |-> IF b \in PlainEvaluated THEN f[b] ELSE 0]
    /\ result = NoResult
    /\ log = {}
    /\ requests = 0
    /\ app = NoApp

\* negamax and negamax_alpha_beta of stockwish.rs on one input
OldSearch ==
    /\ requests = 0
    /\ requests' = 1
    /\ \E board \in Positions, depth \in 0 .. MaxPlainDepth :
          result' = [kind |-> "searched", engine |-> "stockwish", root |-> board, depth |-> depth,
                     plain |-> negamax(board, depth),
                     pruned |-> negamax_alpha_beta(board, depth, I32Min, I32Max)]
    /\ UNCHANGED <<cache, ins, top, inserted, mo, val, log, app>>

\* negamax_alpha_beta of stockwishbot/stockwish.rs on one input
BotSearch ==
    /\ requests = 0
    /\ requests' = 1
    /\ \E board \in Positions, depth \in 0 .. MaxPlainDepth :
          result' = [kind |-> "searched", engine |-> "stockwishbot", root |-> board, depth |-> depth,
                     plain |-> negamax(board, depth),
                     pruned |-> ScoreToI32(bot_negamax_alpha_beta(board, depth, I32Min, I32Max))]
    /\ UNCHANGED <<cache, ins, top, inserted, mo, val, log, app>>

OldBestNextMove ==
    /\ requests = 0
    /\ requests' = 1
    /\ \E board \in Positions :
          result' = [kind |-> old_best_next_move(board).kind, root |-> board,
                     move |-> old_best_next_move(board).move]
    /\ UNCHANGED <<cache, ins, top, inserted, mo, val, log, app>>

NextPlain == OldSearch \/ BotSearch \/ OldBestNextMove
SpecPlain == InitPlain /\ [][NextPlain]_vars

\* C6: called with the full window, the alpha-beta search without cache
\* returns the value of the unpruned search of the same depth.
C6_PruningCorrect ==
    result.kind = "searched" => result.pruned = result.plain

\* the true minimax value of a position at a depth: the unpruned search over
\* every legal move
TrueValue(board, depth) == negamax(board, depth)

Stored == {b \in Positions : cache[b] # NoEntry}

\* C4: whenever the search returns or stores Exact(v) for a position at
\* remaining depth d, v is the depth-d minimax value of the position.
C4_ExactSound ==
    /\ \A e \in log : e.score.tag = "Exact" => e.score.val = TrueValue(e.pos, e.want)
    /\ \A b \in Stored : cache[b].score.tag = "Exact"
                            => cache[b].score.val = TrueValue(b, cache[b].depth)

\* C5: whenever the search returns or stores LowerBound(v) for a position at
\* remaining depth d, the depth-d minimax value of the position is >= v.
C5_LowerBoundSound ==
    /\ \A e \in log : e.score.tag = "LowerBound" => TrueValue(e.pos, e.want) >= e.score.val
    /\ \A b \in Stored : cache[b].score.tag = "LowerBound"
                            => TrueValue(b, cache[b].depth) >= cache[b].score.val

\* ---------------------------------------------------------------- the move loop, as the history shows it
LoopCalls == {e \in log : e.via \in {"cutoff", "exhausted"}}
IsWhite(board) == Boards[board].side = "White"

\* best_value of a node after its first k children
BestAfter(e, k) ==
    LET scores == {e.tried[i][2] : i \in 1 .. k}
    IN  IF IsWhite(e.pos)
        THEN CHOOSE m \in scores \cup {I32Min} : \A x \in scores : x <= m
        ELSE CHOOSE m \in scores \cup {I32Max} : \A x \in scores : x >= m

\* the TopTargets of a node that searched the children in e.tried
TopTargetsOf(e) ==
    TryInsertAll(TopTargetsNew(TopTargetsSize),
                 [i \in 1 .. Len(e.tried) |-> <<e.tried[i][2], e.tried[i][1]>>])

\* the node stopped right after child k with the bound `score`, stored it and returned it
StoppedAt(e, k, score) ==
    /\ k = Len(e.tried)
    /\ e.via = "cutoff"
    /\ e.score = score
    /\ e.stored = CacheData(e.want, score, TopTargetsOf(e))

\* C13: as soon as the best value of a node is >= beta, equality included,
\* the node stores {remaining depth, LowerBound(best value), its TopTargets},
\* returns LowerBound(best value) and searches no further sibling.
C13_BetaCutoffOnEquality ==
    \A e \in LoopCalls : IsWhite(e.pos) =>
        \A k \in 1 .. Len(e.tried) :
            BestAfter(e, k) >= e.beta => StoppedAt(e, k, LowerBound(BestAfter(e, k)))

\* C13 as amended: the cutoff is taken when the best value is strictly
\* beyond the bound (> beta where White moves, giving LowerBound; < alpha
\* where Black moves, giving UpperBound) and only then; on equality the loop
\* goes on to the next sibling.
C13_BetaCutoffStrict ==
    \A e \in LoopCalls :
        /\ \A k \in 1 .. Len(e.tried) :
              IF IsWhite(e.pos)
              THEN BestAfter(e, k) > e.beta => StoppedAt(e, k, LowerBound(BestAfter(e, k)))
              ELSE BestAfter(e, k) < e.alpha => StoppedAt(e, k, UpperBound(BestAfter(e, k)))
        /\ e.via = "cutoff" =>
              IF IsWhite(e.pos) THEN BestAfter(e, Len(e.tried)) > e.beta
              ELSE BestAfter(e, Len(e.tried)) < e.alpha

\* a White node cut off before all the moves offered to it were searched
C13_Witness ==
    \E e \in LoopCalls :
        /\ IsWhite(e.pos) /\ e.via = "cutoff"
        /\ Len(e.tried) < Cardinality(e.offered)
        /\ e.score = LowerBound(BestAfter(e, Len(e.tried)))
        /\ e.stored = CacheData(e.want, e.score, TopTargetsOf(e))

\* C7: for a fixed position and depth the full-window search returns the
\* same value on the cache earlier searches left as on an empty cache.
C7_CacheTransparent ==
    \A b \in Positions, d \in 0 .. DefaultDepth :
        ScoreToI32(negamax_alpha_beta_cache(b, d, cache, I32Min, I32Max, {}).score)
            = ScoreToI32(negamax_alpha_beta_cache(b, d, EmptyCache(Positions), I32Min, I32Max, {}).score)

\* C8: an entry's score is returned only when its depth is >= the remaining
\* depth, and a node that finds an entry of smaller depth is searched in
\* full: its move loop ranges over every legal move.
C8_ProbeDepthRule ==
    \A e \in log :
        /\ e.via = "cache" => e.have >= e.want
        /\ (e.have >= 0 /\ e.have < e.want)
              => e.via # "cache" /\ e.offered = {m.id : m \in LegalMoves(e.pos)}

\* C9: a call that returns the cached score without searching has found an
\* Exact score in the cache.
C9_HitReturnsOnlyExact ==
    \A e \in log : e.via = "cache" => e.score.tag = "Exact"

\* C10: a request returns None when the root has no legal move, without
\* panicking, and Some(legal move) otherwise.
C10_NoneIffNoLegalMove ==
    result.kind \in {"None", "Some", "panic"} =>
        IF LegalMoves(result.root) = {} THEN result.kind = "None"
        ELSE result.kind = "Some" /\ result.move \in LegalMoves(result.root)

\* ================================================================ a position and its mirror image
\* negamax_alpha_beta_cache on a position with a window (alpha, beta), and on
\* the position with the colours exchanged with the window (-beta, -alpha),
\* each on an empty cache
Mirrored == 17 .. 21
Mirror(board) == board + 5
Windows == {I32Min + 1, 0, I32Max}

SearchedBoth(board, depth, _alpha, _beta, r, m) ==
    /\ requests = 0
    /\ requests' = 1
    /\ cache' = r.cache
    /\ log' = r.log
    /\ result' = [kind |-> "mirror", root |-> board, depth |-> depth,
                  alpha |-> _alpha, beta |-> _beta, score |-> r.score, mirrored |-> m.score]
    /\ UNCHANGED <<ins, top, inserted, mo, val, app>>

SearchMirrored ==
    \E board \in Mirrored, depth \in 0 .. MaxDepthArg, _alpha \in Windows, _beta \in Windows :
        /\ _alpha < _beta
        /\ SearchedBoth(board, depth, _alpha, _beta,
                        negamax_alpha_beta_cache(board, depth, EmptyCache(Positions),
                                                 _alpha, _beta, {}),
                        negamax_alpha_beta_cache(Mirror(board), depth, EmptyCache(Positions),
                                                 -_beta, -_alpha, {}))

NextMirror == SearchMirrored
SpecMirror == InitSearch /\ [][NextMirror]_vars

\* C21: the score of a position for a depth and a window (alpha, beta) is the
\* negation of the score of the colour-mirrored position for the window
\* (-beta, -alpha): the value negated, LowerBound and UpperBound exchanged.
C21_NegationSymmetry ==
    result.kind = "mirror" =>
        /\ result.mirrored.val # I32Min
        /\ result.score.val = -result.mirrored.val
        /\ result.score.tag =
               (CASE result.mirrored.tag = "Exact" -> "Exact"
                  [] result.mirrored.tag = "UpperBound" -> "LowerBound"
                  [] result.mirrored.tag = "LowerBound" -> "UpperBound")

\* a Score negated once and twice
ScoreVals == {I32Min, I32Min + 1, I32Max - 1, I32Max} \cup ((-MaxScoreVal) .. MaxScoreVal)
Scores == {Exact(v) : v \in ScoreVals} \cup {UpperBound(v) : v \in ScoreVals}
              \cup {LowerBound(v) : v \in ScoreVals}

InitScore == InitCache

Negate ==
    /\ \E score \in Scores, build \in Builds :
          result' = [kind |-> "neg", score |-> score, build |-> build,
                     once |-> Score_neg(score, build),
                     twice |-> Score_neg(Score_neg(score, build), build)]
    /\ UNCHANGED <<cache, ins, top, inserted, mo, val, log, requests, app>>

NextScore == Negate
SpecScore == InitScore /\ [][NextScore]_vars

\* a is the negation of b; no i32 is the negation of i32::MIN
IsNegationOf(a, b) == b # I32Min /\ a = -b

FlippedTag(tag) ==
    CASE tag = "Exact" -> "Exact"
      [] tag = "UpperBound" -> "LowerBound"
      [] tag = "LowerBound" -> "UpperBound"

\* C23: negating a Score negates its value, keeps Exact and exchanges
\* LowerBound with UpperBound, and negating twice gives the Score back, for
\* every i32 value.
C23_NegationRoundTrip ==
    result.kind = "neg" =>
        /\ result.once.tag = FlippedTag(result.score.tag)
        /\ result.once.tag # "panic"
        /\ IsNegationOf(result.once.val, result.score.val)
        /\ result.twice = result.score

\* C23 as amended: the same, for every i32 value but i32::MIN.
C23_NegationRoundTripButMin ==
    (result.kind = "neg" /\ result.score.val # I32Min) =>
        /\ result.once.tag = FlippedTag(result.score.tag)
        /\ result.once.tag # "panic"
        /\ IsNegationOf(result.once.val, result.score.val)
        /\ result.twice = result.score

\* a bound at the least value that has a negation, negated
C23_Witness ==
    /\ result.kind = "neg"
    /\ result.score = LowerBound(I32Min + 1)
    /\ result.once = UpperBound(I32Max)
    /\ result.twice = result.score

\* ================================================================ piece-square tables
\* PieceSquareTable: 64 cells, indexed 0 .. 63
Cells == 0 .. 63
PIECE_VALUE_SCALE == 12
POSITIONAL_SCALE == 1
PieceSquareTable_new_raw(vals) == [i \in Cells |-> vals[i + 1]]
PieceSquareTable_new(offset, offset_scale, scale, vals) ==
    [i \in Cells |-> offset * offset_scale + scale * vals[i + 1]]

WHITE_PAWN_vals ==
    <<
       0, 0, 0, 0, 0, 0, 0, 0,
       50, 50, 50, 50, 50, 50, 50, 50,
       10, 10, 20, 30, 30, 20, 10, 10,
       5, 5, 10, 25, 25, 10, 5, 5,
       0, 0, 0, 20, 20, 0, 0, 0,
       5, -5, -10, 0, 0, -10, -5, 5,
       5, 10, 10, -20, -20, 10, 10, 5,
       0, 0, 0, 0, 0, 0, 0, 0 >>
WHITE_PAWN == PieceSquareTable_new(PAWN_VALUE, PIECE_VALUE_SCALE, POSITIONAL_SCALE, WHITE_PAWN_vals)

WHITE_KNIGHT_vals ==
    <<
       -50, -40, -30, -30, -30, -30, -40, -50,
       -40, -20, 0, 0, 0, 0, -20, -40,
       -30, 0, 10, 15, 15, 10, 0, -30,
       -30, 5, 15, 20, 20, 15, 5, -30,
       -30, 0, 15, 20, 20, 15, 0, -30,
       -30, 5, 10, 15, 15, 10, 5, -30,
       -40, -20, 0, 5, 5, 0, -20, -40,
       -50, -40, -30, -30, -30, -30, -40, -50 >>
WHITE_KNIGHT ==
    PieceSquareTable_new(KNIGHT_VALUE, PIECE_VALUE_SCALE, POSITIONAL_SCALE, WHITE_KNIGHT_vals)

WHITE_KING_OPENING_vals ==
    <<
       -30, -40, -40, -50, -50, -40, -40, -30,
       -30, -40, -40, -50, -50, -40, -40, -30,
       -30, -40, -40, -50, -50, -40, -40, -30,
       -30, -40, -40, -50, -50, -40, -40, -30,
       -20, -30, -30, -40, -40, -30, -30, -20,
       -10, -20, -20, -20, -20, -20, -20, -10,
       20, 20, 0, 0, 0, 0, 20, 20,
       20, 30, 10, 0, 0, 10, 30, 20 >>
WHITE_KING_OPENING ==
    PieceSquareTable_new(0, PIECE_VALUE_SCALE, POSITIONAL_SCALE, WHITE_KING_OPENING_vals)

\* change_color: the cell of `self` that each cell of the new table is read from
change_color_cells ==
    <<
       56, 57, 58, 59, 60, 61, 62, 63,
       48, 49, 50, 51, 52, 53, 54, 55,
       40, 41, 42, 43, 44, 45, 46, 47,
       32, 33, 34, 35, 36, 37, 38, 39,
       24, 25, 26, 27, 28, 29, 30, 31,
       16, 17, 18, 19, 20, 21, 22, 23,
       8, 9, 10, 11, 12, 13, 14, 15,
       0, 57, 58, 59, 60, 61, 62, 57 >>
change_color(self) == PieceSquareTable_new_raw([k \in 1 .. 64 |-> self[change_color_cells[k]]])

\* the tables change_color is applied to: three of the program's, and the
\* tables with one cell set
UnitTable(cell, v) == [i \in Cells |-> IF i = cell THEN v ELSE 0]
Tables == {WHITE_PAWN, WHITE_KNIGHT, WHITE_KING_OPENING}
              \cup {UnitTable(cell, v) : cell \in Cells, v \in 1 .. MaxCell}

ChangeColor ==
    /\ \E white \in Tables :
          result' = [kind |-> "change_color", white |-> white, black |-> change_color(white),
                     twice |-> change_color(change_color(white))]
    /\ UNCHANGED <<cache, ins, top, inserted, mo, val, log, requests, app>>

NextTables == ChangeColor
SpecTables == InitCache /\ [][NextTables]_vars

\* C22: the table change_color makes is the given table reflected across the
\* rank axis, black[8r + f] = white[8(7 - r) + f], so that change_color
\* applied twice gives the table back.
C22_BlackIsRankMirror ==
    result.kind = "change_color" =>
        /\ \A r \in 0 .. 7, f \in 0 .. 7 :
               result.black[8 * r + f] = result.white[8 * (7 - r) + f]
        /\ result.twice = result.white

\* ================================================================ quiescence search
\* captureMoves: every legal move when the side to move is in check, else the
\* captures, by descending MVV-LVA score (and MoveGen's order among equals)
InCheck == Checkmated \cup {14}
moves_toward_quiescence(board) ==
    LET all == Boards[board].moves
        caps == {i \in 1 .. Len(all) : IsCapture(board, all[i])}
        Key(i) == VictimValue(board, all[i]) - AttackerValue(board, all[i])
        Before(j, i) == Key(j) > Key(i) \/ (Key(j) = Key(i) /\ j < i)
        Rank(i) == Cardinality({j \in caps : Before(j, i)}) + 1
    IN  IF board \in InCheck THEN all
        ELSE [k \in 1 .. Cardinality(caps) |-> all[CHOOSE i \in caps : Rank(i) = k]]

\* quiescent_alpha_beta.  The calibration is handed down unchanged and left
\* out.  A result is the Score (Panic when a negation overflowed under
\* overflow checks) and negs, the values a negation was applied to.
Quiesced(score, negs) == [score |-> score, negs |-> negs]

RECURSIVE quiescent_alpha_beta(_, _, _, _, _)
RECURSIVE quiescent_loop(_, _, _, _, _, _)

\* if beta <= child_score_numeric { return LowerBound } alpha = max(alpha, ..)
quiescent_after_keeping_alpha(board, moves, alpha, beta, build, child_score, negs) ==
    IF child_score = Panic THEN Quiesced(Panic, negs)
    ELSE IF beta <= ScoreToI32(child_score)
    THEN Quiesced(LowerBound(ScoreToI32(child_score)), negs)
    ELSE quiescent_loop(board, Tail(moves), alpha, beta, build, negs)
quiescent_after(board, moves, alpha, beta, build, child_score, negs) ==
    IF child_score = Panic THEN Quiesced(Panic, negs)
    ELSE IF beta <= ScoreToI32(child_score)
    THEN Quiesced(LowerBound(ScoreToI32(child_score)), negs)
    ELSE quiescent_loop(board, Tail(moves), Max(alpha, ScoreToI32(child_score)), beta,
                        build, negs)

\* child_score = -quiescent_alpha_beta(..): r is what the child returned
quiescent_child(board, moves, alpha, beta, build, r) ==
    IF r.score = Panic THEN r
    ELSE quiescent_after(board, moves, alpha, beta, build, Score_neg(r.score, build),
                         r.negs \cup {ScoreToI32(r.score)})

\* for capture in moves_toward_quiescence(board) { .. } Score::Exact(alpha)
quiescent_loop(board, moves, alpha, beta, build, negs) ==
    IF moves = <<>> THEN Quiesced(Exact(alpha), negs)
    ELSE IF build = "debug" /\ (NegOverflows(beta) \/ NegOverflows(alpha))
    THEN Quiesced(Panic, negs \cup {beta, alpha})
    ELSE quiescent_child(board, moves, alpha, beta, build,
                         quiescent_alpha_beta(moves[1].to, WrappingNeg(beta), WrappingNeg(alpha),
                                              build, negs \cup {beta, alpha}))

quiescent_alpha_beta_without_cutoff(board, _alpha, beta, build, negs) ==
    quiescent_loop(board, moves_toward_quiescence(board),
                   Max(_alpha, raw_board_score(board)), beta, build, negs)
quiescent_alpha_beta(board, _alpha, beta, build, negs) ==
    IF beta <= raw_board_score(board)
    THEN Quiesced(LowerBound(raw_board_score(board)), negs)
    ELSE quiescent_loop(board, moves_toward_quiescence(board),
                        Max(_alpha, raw_board_score(board)), beta, build, negs)

\* The positions whose raw score varies, the values it takes (from the point
\* of view of the side to move, never below i32::MIN + 1), the positions
\* quiescence starts from and the bounds of the window it is given.
QEvaluated == {7, 11, 12, 13}
QValues == {I32Min + 1, I32Max} \cup ((-MaxQVal) .. MaxQVal)
QRoots == {5, 7, 10, 11, 14, 16, 17}
QWindows == {I32Min, I32Min + 1, 0, I32Max}

InitQuiesce ==
    /\ cache = EmptyCache(Positions)
    /\ ins = [h \in Hashes |-> <<>>]
    /\ top = TopTargetsNew(0)
    /\ inserted = <<>>
    /\ mo = NoMoveOrder
    /\ \E f \in [QEvaluated -> QValues] :
          val = [b \in Positions |-> IF b \in QEvaluated THEN f[b] ELSE 0]
    /\ result = NoResult
    /\ log = {}
    /\ requests = 0
    /\ app = NoApp

QuiescedAt(board, _alpha, beta, build, r) ==
    /\ requests = 0
    /\ requests' = 1
    /\ result' = [kind |-> "quiesce", root |-> board, alpha |-> _alpha, beta |-> beta,
                  build |-> build, score |-> r.score, negs |-> r.negs]
    /\ UNCHANGED <<cache, ins, top, inserted, mo, val, log, app>>

Quiesce ==
    \E board \in QRoots, _alpha \in QWindows, beta \in QWindows, build \in Builds :
        QuiescedAt(board, _alpha, beta, build,
                   quiescent_alpha_beta(board, _alpha, beta, build, {}))

NextQuiesce == Quiesce
SpecQuiesce == InitQuiesce /\ [][NextQuiesce]_vars

\* the capture-search negamax value: the better of standing pat and of the
\* best quiescence move
RECURSIVE QValue(_)
QBest(board, replies) ==
    CHOOSE v \in replies \cup {raw_board_score(board)} :
        \A w \in replies \cup {raw_board_score(board)} : w <= v
QValue(board) ==
    QBest(board, {-QValue(moves_toward_quiescence(board)[i].to) :
                      i \in 1 .. Len(moves_toward_quiescence(board))})

FullWindow == result.alpha = I32Min /\ result.beta = I32Max

\* C24: called with the full window, quiescent_alpha_beta returns the
\* capture-search negamax value q(P) = max(rawScore(P), max over the
\* quiescence moves m of -q(P after m)); when a capture gains, the result is
\* greater than the static evaluation of P.
C24_QuiescenceValue ==
    (result.kind = "quiesce" /\ FullWindow) =>
        /\ result.score # Panic
        /\ ScoreToI32(result.score) = QValue(result.root)
        /\ (\E i \in 1 .. Len(moves_toward_quiescence(result.root)) :
                -QValue(moves_toward_quiescence(result.root)[i].to)
                    > raw_board_score(result.root))
               => ScoreToI32(result.score) > raw_board_score(result.root)

\* the queen of position 16 is taken for free: the result is above the
\* static evaluation
C24_Witness ==
    /\ result.kind = "quiesce" /\ FullWindow
    /\ result.root = 16
    /\ ScoreToI32(result.score) = 1
    /\ raw_board_score(result.root) = 0
    /\ ScoreToI32(result.score) = -raw_board_score(12)

\* C30: given raw scores of i32::MIN + 1 or more, every negation in
\* quiescent_alpha_beta (of beta, of alpha, of a child's score) is applied to
\* a value above i32::MIN, whatever the window given: nothing overflows, and
\* the value returned lies in i32::MIN + 1 .. i32::MAX.
C30_NoNegationOverflow ==
    result.kind = "quiesce" =>
        /\ result.score # Panic
        /\ \A v \in result.negs : v > I32Min
        /\ I32Min + 1 <= ScoreToI32(result.score) /\ ScoreToI32(result.score) <= I32Max

\* from the widest window, both i32::MAX (beta) and the checkmate score
\* i32::MIN + 1 were negated
C30_Witness ==
    /\ result.kind = "quiesce"
    /\ result.alpha = I32Min /\ result.beta = I32Max
    /\ I32Max \in result.negs
    /\ I32Min + 1 \in result.negs
    /\ result.score # Panic

\* ================================================================ the chess board application (main.rs)
\* The game is the sequence of the moves made; a move records who made it,
\* whether the rules accept it (Game::make_move) and whether it ends the
\* game (Game::result), and, for the AI's, the worker that found it.  A
\* square is chosen or not; which one does not matter here.
HumanMove(legal, ends) == [by |-> "human", legal |-> legal, ends |-> ends, worker |-> 0]
AiMove(worker, ends) == [by |-> "ai", legal |-> TRUE, ends |-> ends, worker |-> worker]

game_side_to_move(game) == IF Len(game) % 2 = 0 THEN "White" ELSE "Black"
game_result(game) == game # <<>> /\ game[Len(game)].ends
game_make_move(game, chess_move) ==
    IF chess_move.legal /\ ~game_result(game) THEN Append(game, chess_move) ELSE game

\* MyApp::default / AIController::default: Black is played by the AI.
\* receiver: 0 for None, else the worker whose channel it is.  workers: the
\* threads spawned so far, each with the game it was given.
AppDefault ==
    [game |-> <<>>, promotion_choice |-> "NotNeeded", chosen_piece |-> FALSE,
     chosen_dest_square |-> FALSE, chess_ai_white |-> FALSE, chess_ai_black |-> TRUE,
     receiver |-> 0, workers |-> <<>>]

disable(a) == [a EXCEPT !.chess_ai_black = FALSE, !.chess_ai_white = FALSE]
waiting_for_ai(a) == a.receiver # 0
controls(a, c) == IF c = "Black" THEN a.chess_ai_black ELSE a.chess_ai_white

schedule_move_always(a) ==
    [a EXCEPT !.receiver = Len(a.workers) + 1,
              !.workers = Append(@, [given |-> a.game, state |-> "running", msg |-> NoMove])]
schedule_move(a) ==
    IF a.receiver = 0
    THEN [a EXCEPT !.receiver = Len(a.workers) + 1,
                   !.workers = Append(@, [given |-> a.game, state |-> "running", msg |-> NoMove])]
    ELSE a

\* poll_for_move: the application after the poll, and the move returned
Polled(a, chess_move) == [app |-> a, move |-> chess_move]
poll_for_move_keeping_receiver(a) ==
    IF a.receiver = 0 THEN Polled(a, NoMove)
    ELSE CASE a.workers[a.receiver].state = "sent" ->
                  Polled([a EXCEPT !.receiver = 0, !.workers[a.receiver].state = "received"],
                         a.workers[a.receiver].msg)
           [] a.workers[a.receiver].state = "panicked" -> Polled(a, NoMove)
           [] OTHER -> Polled(a, NoMove)
poll_for_move(a) ==
    IF a.receiver = 0 THEN Polled(a, NoMove)
    ELSE CASE a.workers[a.receiver].state = "sent" ->
                  Polled([a EXCEPT !.receiver = 0, !.workers[a.receiver].state = "received"],
                         a.workers[a.receiver].msg)
           [] a.workers[a.receiver].state = "panicked" ->
                  Polled([a EXCEPT !.receiver = 0,
                                   !.workers[a.receiver].state = "disconnected"], NoMove)
           [] OTHER -> Polled(a, NoMove)

take_move(a, chess_move) ==
    IF game_result(game_make_move(a.game, chess_move))
    THEN disable([a EXCEPT !.game = game_make_move(a.game, chess_move)])
    ELSE [a EXCEPT !.game = game_make_move(a.game, chess_move)]

\* click_square, with attempt_human_move
click_square(a, chess_move) ==
    IF a.chosen_piece THEN [take_move(a, chess_move) EXCEPT !.chosen_piece = FALSE]
    ELSE [a EXCEPT !.chosen_piece = TRUE]

\* update, "Handle mouse clicks", when a square was clicked
update_clicked_while_waiting(a, promotion_attempt, chess_move) ==
    IF a.chosen_piece /\ promotion_attempt /\ a.promotion_choice = "NotNeeded"
    THEN [a EXCEPT !.chosen_dest_square = TRUE, !.promotion_choice = "Pending"]
    ELSE [click_square(a, chess_move) EXCEPT !.promotion_choice = "NotNeeded"]
update_clicked(a, promotion_attempt, chess_move) ==
    IF a.chosen_piece /\ promotion_attempt /\ a.promotion_choice = "NotNeeded"
    THEN [a EXCEPT !.chosen_dest_square = TRUE, !.promotion_choice = "Pending"]
    ELSE IF ~waiting_for_ai(a)
    THEN [click_square(a, chess_move) EXCEPT !.promotion_choice = "NotNeeded"]
    ELSE a

\* update, when no square was clicked
update_polled(p) == IF p.move # NoMove THEN take_move(p.app, p.move) ELSE p.app
update_idle(a) ==
    IF controls(a, game_side_to_move(a.game))
    THEN update_polled(poll_for_move(schedule_move(a)))
    ELSE a

\* whether the move about to be made ends the game: the rules decide, but
\* the game is over after MaxGameLen moves
Endings(game) == IF Len(game) + 1 >= MaxGameLen THEN {TRUE} ELSE BOOLEAN

InitGui ==
    /\ cache = EmptyCache(Hashes)
    /\ ins = [h \in Hashes |-> <<>>]
    /\ top = TopTargetsNew(0)
    /\ inserted = <<>>
    /\ mo = NoMoveOrder
    /\ val = [b \in Positions |-> 0]
    /\ result = NoResult
    /\ log = {}
    /\ requests = 0
    /\ app = AppDefault

guiOther == <<cache, ins, top, inserted, mo, val, result, log, requests>>

\* a frame in which the board was clicked (the board is disabled while the
\* promotion dialog is open)
UpdateClicked ==
    /\ app.promotion_choice # "Pending"
    /\ \E promotion_attempt \in BOOLEAN, legal \in BOOLEAN, ends \in Endings(app.game) :
          app' = update_clicked(app, promotion_attempt, HumanMove(legal, ends))
    /\ UNCHANGED guiOther

\* a frame in which a piece was picked in the promotion dialog
UpdatePromotionChosen ==
    /\ app.promotion_choice = "Pending"
    /\ \E promotion_attempt \in BOOLEAN, legal \in BOOLEAN, ends \in Endings(app.game) :
          app' = update_clicked([app EXCEPT !.promotion_choice = "Piece"],
                                promotion_attempt, HumanMove(legal, ends))
    /\ UNCHANGED guiOther

\* a frame without a click
UpdateIdle ==
    /\ app' = update_idle(app)
    /\ UNCHANGED guiOther

\* the worker thread: best_next_move on its copy of the game, then the send
WorkerSends(id) ==
    /\ id <= Len(app.workers)
    /\ app.workers[id].state = "running"
    /\ \E ends \in Endings(app.workers[id].given) :
          app' = [app EXCEPT !.workers[id].state = "sent",
                             !.workers[id].msg = AiMove(id, ends)]
    /\ UNCHANGED guiOther

\* the worker thread panics and drops its Sender
WorkerPanics(id) ==
    /\ id <= Len(app.workers)
    /\ Len(app.workers) < MaxWorkers
    /\ app.workers[id].state = "running"
    /\ app' = [app EXCEPT !.workers[id].state = "panicked"]
    /\ UNCHANGED guiOther

WorkerIds == 1 .. (MaxWorkers + MaxGameLen)
Worker == \E id \in WorkerIds : WorkerSends(id) \/ WorkerPanics(id)

NextGui == UpdateClicked \/ UpdatePromotionChosen \/ UpdateIdle \/ Worker
SpecGui == InitGui /\ [][NextGui]_vars

Running(a) == {id \in 1 .. Len(a.workers) : a.workers[id].state = "running"}
AppliedFor(a, id) == {i \in 1 .. Len(a.game) : a.game[i].worker = id}

\* C25: schedule_move is idempotent: while a search is outstanding a call
\* spawns no worker, so at most one worker is searching at any time and a
\* scheduled search has at most one move applied to the game.
C25_ScheduleMoveIdempotent ==
    /\ [](/\ Cardinality(Running(app)) <= 1
          /\ \A id \in 1 .. Len(app.workers) : Cardinality(AppliedFor(app, id)) <= 1)
    /\ [][waiting_for_ai(app) => Len(app'.workers) = Len(app.workers)]_vars

\* a second search is outstanding after the first one had its move applied
C25_Witness ==
    /\ Len(app.workers) >= 2
    /\ waiting_for_ai(app)
    /\ Cardinality(Running(app)) = 1
    /\ Cardinality(AppliedFor(app, 1)) = 1

\* C28: while a search is outstanding no move is applied to the game but
\* the one poll_for_move delivers, so every move of the AI was applied to
\* the game its worker was given.
C28_NoMoveWhileWaiting ==
    /\ [](\A i \in 1 .. Len(app.game) :
              app.game[i].by = "ai" =>
                  app.workers[app.game[i].worker].given = SubSeq(app.game, 1, i - 1))
    /\ [][(waiting_for_ai(app) /\ app'.game # app.game) =>
              /\ app'.game = Append(app.game, app.workers[app.receiver].msg)
              /\ ~waiting_for_ai(app')]_vars

\* the user went through the promotion dialog while the search was
\* outstanding (the choice is still there), and the AI's move was applied
C28_Witness ==
    /\ app.game # <<>>
    /\ app.game[Len(app.game)].by = "ai"
    /\ app.promotion_choice = "Piece"
    /\ ~waiting_for_ai(app)

\* the application with a worker thread that runs and frames that keep coming
SpecGuiFair == SpecGui /\ WF_vars(UpdateIdle) /\ WF_vars(Worker)

Settled(a, id) ==
    /\ id <= Len(a.workers)
    /\ a.receiver # id
    /\ a.workers[id].state \in {"received", "disconnected"}
    /\ a.workers[id].state = "received" => AppliedFor(a, id) # {}

\* C29: every scheduled search is eventually followed by poll_for_move
\* receiving its result or finding the worker disconnected, the receiver
\* being cleared and, for a result Some(move), the move being applied.
C29_ScheduledEventuallyPolled ==
    \A id \in WorkerIds : (id <= Len(app.workers)) ~> Settled(app, id)

\* one search ended disconnected, a later one had its move applied
C29_Witness ==
    \E id, other \in 1 .. Len(app.workers) :
        /\ app.workers[id].state = "disconnected"
        /\ app.workers[other].state = "received"
        /\ Settled(app, id) /\ Settled(app, other)

\* ================================================================ depth of the cached entries
\* the calls that wrote the cache entry of their position
WroteEntry(e) == e.via \in {"cutoff", "exhausted", "leaf"}
\* the depth a call wrote: a leaf writes depth 0, a node its remaining depth
WrittenDepth(e) == IF e.via = "leaf" THEN 0 ELSE e.stored.depth

\* C27: over a sequence of searches on one engine the depth stored in the
\* cache for a hash never decreases: every call that writes the entry of its
\* position writes a depth greater than the depth it found there, and from one
\* search to the next no entry disappears or gets a smaller depth.
C27_StoredDepthNeverDecreases ==
    /\ [](\A e \in log : WroteEntry(e) => WrittenDepth(e) = e.want /\ e.have < WrittenDepth(e))
    /\ [][\A h \in Positions : cache'[h].depth >= cache[h].depth]_vars

\* a second search on the engine overwrote an entry of the first with a
\* deeper one, and met a deeper entry than it wanted, which it left alone
C27_Witness ==
    /\ requests = 2
    /\ \E e \in log : WroteEntry(e) /\ e.via # "leaf" /\ e.have >= 0
                       /\ result.before[e.pos].depth = e.have
                       /\ cache[e.pos].depth > e.have
    /\ \E e \in log : /\ e.via = "cache" /\ e.have > e.want
                       /\ cache[e.pos].depth = e.have

\* ================================================================ MoveOrder::len
\* the iterator as it was constructed for the position and the hints of mo
ConstructedFor(m) ==
    IF m.impl = "move_ordering"
    THEN IF m.hints = TopTargetsNew(0) THEN MoveOrder_new(m.board)
         ELSE MoveOrder_new_with_hint(m.board, m.hints)
    ELSE IF m.hints = TopTargetsNew(0) THEN SW_new(m.board)
         ELSE SW_new_from_preferred_targets(m.board, TopTargets_targets(m.hints))
\* ExactSizeIterator::len of either implementation
LenOf(m, it) == IF m.impl = "move_ordering" THEN MoveOrder_len(it) ELSE SW_len(it)

\* C26: MoveOrder::len(), asked right after construction, is the number of
\* moves the iterator yields; so the search's test `valid_moves.len() == 0`
\* is true exactly for the positions without legal moves.
C26_LenIsNumberYielded ==
    mo.impl # "none" =>
        /\ mo.done => LenOf(mo, ConstructedFor(mo)) = Len(mo.yielded)
        /\ mo.impl = "stockwish" =>
              (LenOf(mo, ConstructedFor(mo)) = 0 <=> LegalMoves(mo.board) = {})

====
